---- MODULE Spec2Model ----
(***************************************************************************)
(* Leader election engine of the cluster agent                             *)
(* (pkg/util/kubernetes/apiserver/leaderelection/leaderelection.go).       *)
(*                                                                         *)
(* The module models                                                       *)
(*   - the LeaderEngine struct and the process-wide globalLeaderEngine,    *)
(*   - the singleton accessor GetCustomLeaderEngine, statement by          *)
(*     statement (it takes no lock), with LeaderEngine.init,               *)
(*   - EnsureLeaderElectionRuns with its mutex, its sync.Once and its      *)
(*     select over a 500ms ticker and a 4s deadline,                       *)
(*   - CurrentLeaderName / IsLeader under currentHolderMutex,              *)
(*   - the elector's holder-changed callback, the only writer of           *)
(*     currentHolderIdentity.                                              *)
(*                                                                         *)
(* Time is counted in poll intervals (500ms).  Durations of leases are in  *)
(* seconds.  Engine instances are numbered 1..MaxEngines, 0 is nil.        *)
(***************************************************************************)
EXTENDS Integers, FiniteSets, Sequences, TLC

(* ------------------------------------------------------------------ *)
(* Program constants                                                   *)
(* ------------------------------------------------------------------ *)
defaultLeaderLeaseDuration == 60

clientTimeoutMs == 2000

tickMs == 500

\* one attempt more than the accessor configures
RetryCountPlusOne == 10 + 1

RetryCount == 10

\* timeoutDuration := clientTimeout * 2, in ticks of the 500ms ticker
Window == (clientTimeoutMs * 2) \div tickMs

(* ------------------------------------------------------------------ *)
(* Bounds of the model                                                 *)
(* ------------------------------------------------------------------ *)
MaxEngines == 2

NumGetters == 2

NumCallers == 2

NumQueriers == 1

MaxLaunches == 2

NumReplicas == 3

\* a non-zero TTL a caller may pass, and a non-zero configured lease duration
ArgTtl == 15

CfgLease == 30

EngineIds == 1..MaxEngines

Getters == 1..NumGetters

Callers == 1..NumCallers

Queriers == 1..NumQueriers

Nil == 0

HostName == "host"

\* identities the lease record may name; "" is "no holder"
Identities == {"", "a", "b"}

\* a string header caught between its two word stores
Torn == "<torn>"

VARIABLES
    globalLeaderEngine, \* the package variable: Nil or an engine instance
    nEngines,           \* instances allocated so far by newLeaderEngine
    engines,            \* the LeaderEngine structs, by instance
    configLease,        \* config.Datadog.GetInt("leader_lease_duration")
    getters,            \* goroutines inside GetCustomLeaderEngine
    callers,            \* goroutines inside EnsureLeaderElectionRuns
    queriers,           \* goroutines inside CurrentLeaderName / IsLeader
    elector,            \* the run loop's callback goroutine, by instance
    launches,           \* run loops started by `go le.leaderElector.Run()`
    obs,                \* history, by instance: what has been observed
    returned,           \* history: engines handed out since the last reset
    lease,              \* the shared lease record's holder (replica view)
    replicas,           \* the replicas' engines (replica view)
    details,            \* the latest GetLeaderDetails call and its result
    attempt             \* an engine under LeaderEngine.init, call by call

vars == <<globalLeaderEngine, nEngines, engines, configLease, getters, callers,
          queriers, elector, launches, obs, returned, lease, replicas,
          details, attempt>>

accVars == <<globalLeaderEngine, nEngines, configLease, getters, returned>>

repVars == <<lease, replicas>>

extVars == <<details, attempt>>

(* ------------------------------------------------------------------ *)
(* The LeaderEngine struct                                             *)
(* ------------------------------------------------------------------ *)
\* newLeaderEngine: every field but LeaseName/LeaderNamespace is zero
newLeaderEngine ==
    [ HolderIdentity        |-> "",
      LeaseDuration         |-> 0,
      leaderElector         |-> FALSE,
      running               |-> FALSE,
      m                     |-> 0,
      onceDone              |-> FALSE,
      currentHolderIdentity |-> "",
      rwWriter              |-> FALSE,
      rwReaders             |-> 0,
      status                |-> "NeedSetup",
      tryCount              |-> 0 ]

\* sync.RWMutex: RLock waits for the writer, Lock for everybody
CanRLockNoWait(le) == TRUE

CanRLockUnderM(le) == ~le.rwWriter /\ le.m = 0

CanRLock(le) == ~le.rwWriter

CanLock(le) == ~le.rwWriter /\ le.rwReaders = 0

\* CurrentLeaderName's body between RLock and RUnlock
ReadHolder(le) == le.currentHolderIdentity

\* IsLeader: CurrentLeaderName() == le.HolderIdentity
IsLeaderWhenSet(holder, identity) == holder # ""

IsLeader(holder, identity) == holder = identity

(* ------------------------------------------------------------------ *)
(* EnsureLeaderElectionRuns                                            *)
(* ------------------------------------------------------------------ *)
\* le.once.Do(func): how many run loops this call starts
OnceDoEveryCall(le) == 1

OnceDo(le) == IF le.onceDone THEN 0 ELSE 1

\* the poll's test `leaderIdentity != ""`
HolderSetAlways(leaderIdentity) == TRUE

HolderSet(leaderIdentity) == leaderIdentity # ""

\* what le.running is when the deadline case returns
RunningAtTimeoutSet(le) == TRUE

RunningAtTimeout(le) == le.running

\* if le.running { ... return nil }
FastPathIfHolder(le) == le.running /\ le.currentHolderIdentity # ""

FastPath(le) == le.running

\* case <-timeout: the channel of time.After(timeoutDuration) is ready
DeadlineNever(elapsed) == FALSE

DeadlineReady(elapsed) == elapsed = Window

Min(a, b) == IF a < b THEN a ELSE b

\* elapsed: poll intervals since the call's timer was set; waited: a poll
\* interval or more went by while the call was in le.m.Lock() before;
\* logged: the leader identity the fast path's log line read
IdleCaller == [pc |-> "idle", le |-> 1, res |-> "none", elapsed |-> 0,
               tick |-> FALSE, fired |-> FALSE, waited |-> FALSE,
               logged |-> "none"]

\* the call is made: le.m.Lock() is next
EnsureCall(c) ==
    /\ callers[c].pc \in {"idle", "done"}
    /\ callers' = [callers EXCEPT ![c] = [IdleCaller EXCEPT !.pc = "lock",
                                                           !.le = callers[c].le]]
    /\ UNCHANGED <<engines, queriers, elector, launches, obs>>
    /\ UNCHANGED accVars /\ UNCHANGED repVars /\ UNCHANGED extVars

\* le.m.Lock()
EnsureLock(c) ==
    LET e == callers[c].le IN
    /\ callers[c].pc = "lock"
    /\ engines[e].m = 0
    /\ engines' = [engines EXCEPT ![e].m = c]
    /\ callers' = [callers EXCEPT ![c].pc = "locked"]
    /\ UNCHANGED <<queriers, elector, launches, obs>>
    /\ UNCHANGED accVars /\ UNCHANGED repVars /\ UNCHANGED extVars

\* if le.running { log(IsLeader, CurrentLeaderName); return nil }
EnsureFastPath(c) ==
    LET e == callers[c].le IN
    /\ callers[c].pc = "locked"
    /\ FastPath(engines[e])
    /\ CanRLock(engines[e])
    /\ engines' = [engines EXCEPT ![e].m = 0]
    /\ callers' = [callers EXCEPT ![c].pc = "done", ![c].res = "ok",
                                  ![c].waited = FALSE,
                                  ![c].logged = ReadHolder(engines[e])]
    /\ UNCHANGED <<queriers, elector, launches, obs>>
    /\ UNCHANGED accVars /\ UNCHANGED repVars /\ UNCHANGED extVars

\* le.once.Do(go Run); timeout := time.After(4s); tick := NewTicker(500ms)
EnsureStart(c) ==
    LET e == callers[c].le IN
    /\ callers[c].pc = "locked"
    /\ ~FastPath(engines[e])
    /\ launches' = [launches EXCEPT
                      ![e] = Min(MaxLaunches, @ + OnceDo(engines[e]))]
    /\ engines' = [engines EXCEPT ![e].onceDone = TRUE]
    /\ callers' = [callers EXCEPT ![c].pc = "poll", ![c].elapsed = 0,
                                  ![c].tick = FALSE, ![c].fired = FALSE]
    /\ UNCHANGED <<queriers, elector, obs>>
    /\ UNCHANGED accVars /\ UNCHANGED repVars /\ UNCHANGED extVars

\* 500ms pass for the polling call: the ticker delivers a tick; at Window
\* intervals the deadline channel is ready as well.  The caller takes each
\* tick before the next one is due.  The same 500ms pass for the calls
\* that wait in le.m.Lock() meanwhile.
TimePasses(c) ==
    /\ callers[c].pc = "poll"
    /\ callers[c].elapsed < Window
    /\ ~callers[c].tick
    /\ callers' = [d \in Callers |->
                     IF d = c
                     THEN [callers[d] EXCEPT !.elapsed = @ + 1, !.tick = TRUE]
                     ELSE IF callers[d].pc = "lock"
                     THEN [callers[d] EXCEPT !.waited = TRUE]
                     ELSE callers[d]]
    /\ UNCHANGED <<engines, queriers, elector, launches, obs>>
    /\ UNCHANGED accVars /\ UNCHANGED repVars /\ UNCHANGED extVars

\* case <-tick.C
EnsureTick(c) ==
    LET e == callers[c].le
        leaderIdentity == ReadHolder(engines[e]) IN
    /\ callers[c].pc = "poll"
    /\ callers[c].tick
    /\ CanRLock(engines[e])
    /\ IF HolderSet(leaderIdentity)
       THEN /\ engines' = [engines EXCEPT ![e].running = TRUE, ![e].m = 0]
            /\ callers' = [callers EXCEPT ![c].pc = "done", ![c].res = "ok",
                                          ![c].tick = FALSE, ![c].elapsed = 0,
                                          ![c].waited = FALSE]
       ELSE /\ callers' = [callers EXCEPT ![c].tick = FALSE]
            /\ UNCHANGED engines
    /\ UNCHANGED <<queriers, elector, launches, obs>>
    /\ UNCHANGED accVars /\ UNCHANGED repVars /\ UNCHANGED extVars

\* case <-timeout: chosen by select whenever the deadline is ready, also
\* when a tick is ready with it
EnsureTimeout(c) ==
    LET e == callers[c].le IN
    /\ callers[c].pc = "poll"
    /\ DeadlineReady(callers[c].elapsed)
    /\ engines' = [engines EXCEPT ![e].running = RunningAtTimeout(engines[e]),
                                  ![e].m = 0]
    /\ callers' = [callers EXCEPT ![c].pc = "done", ![c].res = "timeout",
                                  ![c].tick = FALSE, ![c].elapsed = 0,
                                  ![c].waited = FALSE]
    /\ obs' = [obs EXCEPT ![e].timedOut = TRUE]
    /\ UNCHANGED <<queriers, elector, launches>>
    /\ UNCHANGED accVars /\ UNCHANGED repVars /\ UNCHANGED extVars

(* ------------------------------------------------------------------ *)
(* The holder-changed callback (OnNewLeader) of the run loop           *)
(* ------------------------------------------------------------------ *)
\* le.currentHolderMutex.Lock(), the run loop reporting `identity`
OnNewLeaderLock(e, identity) ==
    /\ launches[e] > 0
    /\ elector[e].pc = "idle"
    /\ CanLock(engines[e])
    /\ engines' = [engines EXCEPT ![e].rwWriter = TRUE]
    /\ elector' = [elector EXCEPT ![e] = [pc |-> "locked", id |-> identity]]
    /\ UNCHANGED <<callers, queriers, launches, obs>>
    /\ UNCHANGED accVars /\ UNCHANGED repVars /\ UNCHANGED extVars

\* le.currentHolderIdentity = identity, first word of the string header
OnNewLeaderStore(e) ==
    /\ elector[e].pc = "locked"
    /\ engines' = [engines EXCEPT ![e].currentHolderIdentity =
                      IF @ = elector[e].id THEN @ ELSE Torn]
    /\ elector' = [elector EXCEPT ![e].pc = "storing"]
    /\ UNCHANGED <<callers, queriers, launches, obs>>
    /\ UNCHANGED accVars /\ UNCHANGED repVars /\ UNCHANGED extVars

\* the store completes; le.currentHolderMutex.Unlock()
OnNewLeaderDone(e) ==
    LET identity == elector[e].id IN
    /\ elector[e].pc = "storing"
    /\ engines' = [engines EXCEPT ![e].currentHolderIdentity = identity,
                                  ![e].rwWriter = FALSE]
    /\ elector' = [elector EXCEPT ![e] = [pc |-> "idle", id |-> ""]]
    /\ obs' = [obs EXCEPT ![e].lastWrite = identity,
                          ![e].everNonEmpty = @ \/ identity # ""]
    /\ callers' = [c \in Callers |->
                     IF /\ callers[c].le = e
                        /\ callers[c].pc = "poll"
                        /\ callers[c].elapsed < Window
                        /\ identity # ""
                     THEN [callers[c] EXCEPT !.fired = TRUE]
                     ELSE callers[c]]
    /\ UNCHANGED <<queriers, launches>>
    /\ UNCHANGED accVars /\ UNCHANGED repVars /\ UNCHANGED extVars

(* ------------------------------------------------------------------ *)
(* CurrentLeaderName / IsLeader                                        *)
(* ------------------------------------------------------------------ *)
IdleQuerier == [pc |-> "idle", le |-> 1, op |-> "CurrentLeaderName",
                name |-> "", leader |-> FALSE, at |-> ""]

\* le.currentHolderMutex.RLock()
QueryRLock(q, op) ==
    LET e == queriers[q].le IN
    /\ queriers[q].pc \in {"idle", "done"}
    /\ CanRLock(engines[e])
    /\ engines' = [engines EXCEPT ![e].rwReaders = @ + 1]
    /\ queriers' = [queriers EXCEPT ![q] = [IdleQuerier EXCEPT !.pc = "rlocked",
                                                            !.le = e, !.op = op]]
    /\ UNCHANGED <<callers, elector, launches, obs>>
    /\ UNCHANGED accVars /\ UNCHANGED repVars /\ UNCHANGED extVars

\* return le.currentHolderIdentity (deferred RUnlock); IsLeader compares it
QueryRead(q) ==
    LET e == queriers[q].le
        name == ReadHolder(engines[e]) IN
    /\ queriers[q].pc = "rlocked"
    /\ engines' = [engines EXCEPT ![e].rwReaders = @ - 1]
    /\ queriers' = [queriers EXCEPT
                      ![q].pc = "done",
                      ![q].name = name,
                      ![q].leader = IsLeader(name, engines[e].HolderIdentity),
                      ![q].at = obs[e].lastWrite]
    /\ UNCHANGED <<callers, elector, launches, obs>>
    /\ UNCHANGED accVars /\ UNCHANGED repVars /\ UNCHANGED extVars

(* ------------------------------------------------------------------ *)
(* Specification of one initialised engine in use                      *)
(* ------------------------------------------------------------------ *)
IdleGetter == [pc |-> "idle", id |-> "", ttl |-> 0, eng |-> Nil,
               err |-> FALSE]

\* engine 1 as a successful accessor call leaves it
ReadyEngine ==
    [newLeaderEngine EXCEPT !.HolderIdentity = "a",
                            !.LeaseDuration = defaultLeaderLeaseDuration,
                            !.leaderElector = TRUE,
                            !.status = "OK"]

NoObs == [lastWrite |-> "", everNonEmpty |-> FALSE, timedOut |-> FALSE,
          inits |-> 0, firstOK |-> FALSE, firstId |-> "", firstTtl |-> 0,
          okByOther |-> FALSE]

\* the identity replica r campaigns with (distinct per replica)
ReplicaName(r) == <<"a", "b", "c", "d", "e">>[r]

ReplicaIds == 1..NumReplicas

\* no GetLeaderDetails call yet
NoDetails == [called |-> FALSE, api |-> <<>>, err |-> "nil",
              led |-> [HolderIdentity |-> ""], gets |-> 0]

\* no engine handed to init yet
NoAttempt == [le |-> newLeaderEngine, made |-> FALSE, was |-> "",
              env |-> <<>>, err |-> FALSE, cause |-> "nil"]

InitExt ==
    /\ details = NoDetails
    /\ attempt = NoAttempt

InitRep ==
    /\ lease = ""
    /\ replicas = [r \in ReplicaIds |->
                     [HolderIdentity        |-> ReplicaName(r),
                      currentHolderIdentity |-> "",
                      held                  |-> FALSE]]

InitRun ==
    /\ globalLeaderEngine = 1
    /\ nEngines = 1
    /\ engines = [e \in EngineIds |-> IF e = 1 THEN ReadyEngine ELSE newLeaderEngine]
    /\ configLease = 0
    /\ getters = [g \in Getters |-> IdleGetter]
    /\ callers = [c \in Callers |-> IdleCaller]
    /\ queriers = [q \in Queriers |-> IdleQuerier]
    /\ elector = [e \in EngineIds |-> [pc |-> "idle", id |-> ""]]
    /\ launches = [e \in EngineIds |-> 0]
    /\ obs = [e \in EngineIds |-> NoObs]
    /\ returned = {1}
    /\ InitRep
    /\ InitExt

NextRun ==
    \/ \E c \in Callers : EnsureCall(c)
    \/ \E c \in Callers : EnsureLock(c)
    \/ \E c \in Callers : EnsureFastPath(c)
    \/ \E c \in Callers : EnsureStart(c)
    \/ \E c \in Callers : TimePasses(c)
    \/ \E c \in Callers : EnsureTick(c)
    \/ \E c \in Callers : EnsureTimeout(c)
    \/ \E e \in EngineIds, x \in Identities : OnNewLeaderLock(e, x)
    \/ \E e \in EngineIds : OnNewLeaderStore(e)
    \/ \E e \in EngineIds : OnNewLeaderDone(e)
    \/ \E q \in Queriers, op \in {"CurrentLeaderName", "IsLeader"} : QueryRLock(q, op)
    \/ \E q \in Queriers : QueryRead(q)

SpecRun == InitRun /\ [][NextRun]_vars

\* the next statement of a call of EnsureLeaderElectionRuns under way, or
\* its timers going off
EnsureStep(c) ==
    \/ EnsureLock(c) \/ EnsureFastPath(c) \/ EnsureStart(c)
    \/ TimePasses(c) \/ EnsureTick(c) \/ EnsureTimeout(c)

\* the next statement of a callback under way
OnNewLeaderStep(e) == OnNewLeaderStore(e) \/ OnNewLeaderDone(e)

\* Scheduling: a goroutine that can take its next step takes it, a timer
\* that is due fires.  sync.Mutex hands the lock to a goroutine that keeps
\* waiting for it (starvation mode), and RWMutex.Unlock admits the readers
\* that wait before the next writer, so a lock that is free again and
\* again is obtained.  Nothing obliges anybody to make a call, nor the run
\* loop to report a holder.
FairRun ==
    /\ \A c \in Callers : SF_vars(EnsureStep(c))
    /\ \A e \in EngineIds : WF_vars(OnNewLeaderStep(e))

SpecRunFair == SpecRun /\ FairRun

(* ------------------------------------------------------------------ *)
(* LeaderEngine.init and the retrier that runs it                      *)
(* ------------------------------------------------------------------ *)
\* what one attempt of init meets outside the engine: os.Hostname, the API
\* client, the ConfigMap probe and newElection
InitEnvs ==
    { env \in [ host     : {"ok", "err"},
                client   : {"ok", "err"},
                probe    : {"found", "notfound", "err"},
                election : {"ok", "err"} ] :
        \* what follows the first failing step is not reached
        /\ env.host = "err" => env.client = "ok"
        /\ (env.host = "err" \/ env.client = "err") => env.probe = "found"
        /\ (env.host = "err" \/ env.client = "err" \/ env.probe = "err")
              => env.election = "ok" }

\* if le.HolderIdentity == "" { le.HolderIdentity, err = os.Hostname() }
ResolveIdentity(identity, env) ==
    IF identity # "" THEN identity
    ELSE IF env.host = "ok" THEN HostName ELSE ""

\* the duration set by the caller wins over the configured one
ResolveLeaseSupplied(duration, cfg) ==
    IF duration # 0 THEN duration
    ELSE IF cfg # 0 THEN cfg ELSE defaultLeaderLeaseDuration

\* the configured duration if not 0, else the one set, else the default
ResolveLease(duration, cfg) ==
    LET d == IF cfg # 0 THEN cfg ELSE duration IN
    IF d = 0 THEN defaultLeaderLeaseDuration ELSE d

\* err != nil && errors.IsNotFound(err) == false
ProbeFailsUnlessFound(env) == env.probe # "found"

ProbeFails(env) == env.probe = "err"

\* LeaderEngine.init: the engine it leaves, whether it returned an error
\* and which call the error came from
LeInit(le, cfg, env) ==
    IF le.HolderIdentity = "" /\ env.host = "err"
    THEN [le |-> le, err |-> TRUE, cause |-> "os.Hostname"]
    ELSE LET le1 == [le EXCEPT
                       !.HolderIdentity = ResolveIdentity(@, env),
                       !.LeaseDuration = ResolveLease(@, cfg)] IN
         IF env.client = "err"
         THEN [le |-> le1, err |-> TRUE, cause |-> "GetAPIClient"]
         ELSE IF ProbeFails(env)
         THEN [le |-> le1, err |-> TRUE, cause |-> "ConfigMaps.Get"]
         ELSE IF env.election = "err"
              THEN [le |-> [le1 EXCEPT !.leaderElector = FALSE], err |-> TRUE,
                    cause |-> "newElection"]
              ELSE [le |-> [le1 EXCEPT !.leaderElector = TRUE], err |-> FALSE,
                    cause |-> "nil"]

\* Retrier.TriggerRetry with Strategy RetryCount: a memo of success, an
\* attempt when idle or when the retry delay has elapsed, an error without
\* an attempt otherwise; the RetryCount-th failure is permanent
Attempts(le, delayElapsed) ==
    \/ le.status = "Idle"
    \/ le.status = "FailWillRetry" /\ delayElapsed

TriggerRetry(le, cfg, env, delayElapsed) ==
    IF le.status = "OK" THEN [le |-> le, err |-> FALSE, tried |-> FALSE]
    ELSE IF ~Attempts(le, delayElapsed)
    THEN [le |-> le, err |-> TRUE, tried |-> FALSE]
    ELSE LET r == LeInit(le, cfg, env) IN
         IF ~r.err
         THEN [le |-> [r.le EXCEPT !.status = "OK"], err |-> FALSE,
               tried |-> TRUE]
         ELSE [le |-> [r.le EXCEPT
                         !.tryCount = @ + 1,
                         !.status = IF le.tryCount + 1 >= RetryCount
                                    THEN "PermaFail" ELSE "FailWillRetry"],
               err |-> TRUE, tried |-> TRUE]

\* one representative of the inputs TriggerRetry does not look at: the
\* delay when no retry is pending, the environment when nothing is attempted
Relevant(le, env, delayElapsed) ==
    /\ le.status # "FailWillRetry" => delayElapsed
    /\ ~Attempts(le, delayElapsed) =>
          env = [host |-> "ok", client |-> "ok", probe |-> "found",
                 election |-> "ok"]
    /\ le.HolderIdentity # "" => env.host = "ok"

(* ------------------------------------------------------------------ *)
(* GetCustomLeaderEngine, statement by statement (no lock is taken)    *)
(* ------------------------------------------------------------------ *)
ArgIds == {"", "a"}

ArgTtls == {0, ArgTtl}

InFlight(g) == getters[g].pc \notin {"idle", "done"}

\* if globalLeaderEngine == nil { ... } : where the call goes next
AfterCheckAlwaysNew(global) == "new"

AfterCheckAlwaysSet(global) == IF global = Nil THEN "new" ELSE "setId"

AfterCheck(global) == IF global = Nil THEN "new" ELSE "trigger"

runVars == <<callers, queriers, elector, launches>>

\* an engine a goroutine still works on (a call in progress, a run loop)
Referenced(e) ==
    \/ \E c \in Callers : callers[c].pc # "idle" /\ callers[c].le = e
    \/ \E q \in Queriers : queriers[q].pc # "idle" /\ queriers[q].le = e
    \/ launches[e] > 0

\* an engine the package variable, a caller's result or a goroutine refers
\* to; any other engine is garbage and its slot holds the zero struct
Reachable(e, global, gets) ==
    \/ e = global
    \/ \E g \in Getters : gets[g].eng = e
    \/ Referenced(e)

Collect(structs, zero, global, gets) ==
    [e \in EngineIds |-> IF Reachable(e, global, gets) THEN structs[e] ELSE zero]

\* the call and its read of the package variable; the caller drops the
\* result of its previous call
GetCall(g, id, ttl) ==
    /\ ~InFlight(g)
    /\ AfterCheck(globalLeaderEngine) = "new" =>
          nEngines + Cardinality({h \in Getters : getters[h].pc = "new"})
              < MaxEngines
    /\ getters' = [getters EXCEPT ![g] =
          [IdleGetter EXCEPT
             !.pc = AfterCheck(globalLeaderEngine), !.id = id, !.ttl = ttl]]
    /\ engines' = Collect(engines, newLeaderEngine, globalLeaderEngine, getters')
    /\ obs' = Collect(obs, NoObs, globalLeaderEngine, getters')
    /\ UNCHANGED <<globalLeaderEngine, nEngines, configLease, returned>>
    /\ UNCHANGED runVars /\ UNCHANGED repVars /\ UNCHANGED extVars

\* globalLeaderEngine = newLeaderEngine()
GetNew(g) ==
    LET e == nEngines + 1 IN
    /\ getters[g].pc = "new"
    /\ nEngines < MaxEngines
    /\ nEngines' = e
    /\ globalLeaderEngine' = e
    /\ engines' = Collect([engines EXCEPT ![e] = newLeaderEngine],
                          newLeaderEngine, e, getters)
    /\ obs' = Collect([obs EXCEPT ![e] = [NoObs EXCEPT
                                           !.firstId = getters[g].id,
                                           !.firstTtl = getters[g].ttl]],
                      NoObs, e, getters)
    /\ getters' = [getters EXCEPT ![g].pc = "setId"]
    /\ UNCHANGED <<configLease, returned>>
    /\ UNCHANGED runVars /\ UNCHANGED repVars /\ UNCHANGED extVars

\* globalLeaderEngine.HolderIdentity = holderIdentity
GetSetId(g) ==
    /\ getters[g].pc = "setId"
    /\ engines' = [engines EXCEPT
                     ![globalLeaderEngine].HolderIdentity = getters[g].id]
    /\ getters' = [getters EXCEPT ![g].pc = "setTtl"]
    /\ UNCHANGED <<globalLeaderEngine, nEngines, configLease, returned, obs>>
    /\ UNCHANGED runVars /\ UNCHANGED repVars /\ UNCHANGED extVars

\* globalLeaderEngine.LeaseDuration = ttl
GetSetTtl(g) ==
    /\ getters[g].pc = "setTtl"
    /\ engines' = [engines EXCEPT
                     ![globalLeaderEngine].LeaseDuration = getters[g].ttl]
    /\ getters' = [getters EXCEPT ![g].pc = "setup"]
    /\ UNCHANGED <<globalLeaderEngine, nEngines, configLease, returned, obs>>
    /\ UNCHANGED runVars /\ UNCHANGED repVars /\ UNCHANGED extVars

\* globalLeaderEngine.initRetry.SetupRetrier(...): the retrier is ready
GetSetup(g) ==
    /\ getters[g].pc = "setup"
    /\ engines' = [engines EXCEPT ![globalLeaderEngine].status = "Idle"]
    /\ getters' = [getters EXCEPT ![g].pc = "trigger"]
    /\ UNCHANGED <<globalLeaderEngine, nEngines, configLease, returned, obs>>
    /\ UNCHANGED runVars /\ UNCHANGED repVars /\ UNCHANGED extVars

\* err := globalLeaderEngine.initRetry.TriggerRetry(); if err != nil
\* { return nil, err }
GetTrigger(g, env, delayElapsed) ==
    LET e == globalLeaderEngine
        r == TriggerRetry(engines[e], configLease, env, delayElapsed) IN
    /\ getters[g].pc = "trigger"
    /\ Relevant(engines[e], env, delayElapsed)
    /\ engines' = [engines EXCEPT ![e] = r.le]
    /\ obs' = [obs EXCEPT
                 ![e].inits = IF r.tried THEN Min(RetryCount + 1, @ + 1) ELSE @,
                 ![e].firstOK = IF r.tried /\ obs[e].inits = 0 THEN ~r.err ELSE @,
                 ![e].okByOther = IF r.tried /\ ~r.err
                                  THEN /\ getters[g].id # obs[e].firstId
                                       /\ getters[g].ttl # obs[e].firstTtl
                                  ELSE @]
    /\ getters' = [getters EXCEPT
                     ![g] = [IdleGetter EXCEPT
                               !.pc = IF r.err THEN "done" ELSE "ret",
                               !.err = r.err]]
    /\ UNCHANGED <<globalLeaderEngine, nEngines, configLease, returned>>
    /\ UNCHANGED runVars /\ UNCHANGED repVars /\ UNCHANGED extVars

\* return globalLeaderEngine, nil
GetReturn(g) ==
    /\ getters[g].pc = "ret"
    /\ getters' = [getters EXCEPT ![g].pc = "done",
                                  ![g].eng = globalLeaderEngine]
    /\ returned' = returned \cup {globalLeaderEngine}
    /\ UNCHANGED <<globalLeaderEngine, nEngines, engines, configLease, obs>>
    /\ UNCHANGED runVars /\ UNCHANGED repVars /\ UNCHANGED extVars

\* ResetGlobalLeaderEngine, between test cases: no accessor call is running
\* and the handles of the finished test case are dropped.  An engine nothing
\* refers to any more is garbage: its slot is free again.
ResetGlobalLeaderEngine ==
    /\ \A g \in Getters : ~InFlight(g)
    /\ globalLeaderEngine # Nil
    /\ globalLeaderEngine' = Nil
    /\ returned' = {}
    /\ getters' = [g \in Getters |-> IdleGetter]
    /\ engines' = Collect(engines, newLeaderEngine, Nil, getters')
    /\ obs' = Collect(obs, NoObs, Nil, getters')
    /\ nEngines' = IF \E e \in EngineIds : Referenced(e) THEN nEngines ELSE 0
    /\ UNCHANGED configLease
    /\ UNCHANGED runVars /\ UNCHANGED repVars /\ UNCHANGED extVars

\* the accessor's callers take turns until initialization has succeeded
GetCallInTurn(g, id, ttl) ==
    /\ \/ \A h \in Getters : ~InFlight(h)
       \/ /\ globalLeaderEngine # Nil
          /\ engines[globalLeaderEngine].status = "OK"
    /\ GetCall(g, id, ttl)

InitAcc ==
    /\ globalLeaderEngine = Nil
    /\ nEngines = 0
    /\ engines = [e \in EngineIds |-> newLeaderEngine]
    /\ configLease \in {0, CfgLease}
    /\ getters = [g \in Getters |-> IdleGetter]
    /\ callers = [c \in Callers |-> IdleCaller]
    /\ queriers = [q \in Queriers |-> IdleQuerier]
    /\ elector = [e \in EngineIds |-> [pc |-> "idle", id |-> ""]]
    /\ launches = [e \in EngineIds |-> 0]
    /\ obs = [e \in EngineIds |-> NoObs]
    /\ returned = {}
    /\ InitRep
    /\ InitExt

NextAccRest ==
    \/ \E g \in Getters : GetNew(g)
    \/ \E g \in Getters : GetSetId(g)
    \/ \E g \in Getters : GetSetTtl(g)
    \/ \E g \in Getters : GetSetup(g)
    \/ \E g \in Getters, env \in InitEnvs, d \in BOOLEAN : GetTrigger(g, env, d)
    \/ \E g \in Getters : GetReturn(g)
    \/ ResetGlobalLeaderEngine

NextAcc ==
    \/ \E g \in Getters, id \in ArgIds, ttl \in ArgTtls : GetCall(g, id, ttl)
    \/ NextAccRest

NextAccSeq ==
    \/ \E g \in Getters, id \in ArgIds, ttl \in ArgTtls : GetCallInTurn(g, id, ttl)
    \/ NextAccRest

\* any goroutines call the accessor at any time
SpecAcc == InitAcc /\ [][NextAcc]_vars

\* the calls up to the first successful initialization do not overlap
SpecAccSeq == InitAcc /\ [][NextAccSeq]_vars

(* ------------------------------------------------------------------ *)
(* LeaderEngine.init on an engine of its own                           *)
(* ------------------------------------------------------------------ *)
\* an engine as lines 80-89 of the accessor set it up, not published
InitConfigure(id, ttl) ==
    /\ attempt' = [NoAttempt EXCEPT
                     !.le = [newLeaderEngine EXCEPT !.HolderIdentity = id,
                                                    !.LeaseDuration = ttl,
                                                    !.status = "Idle"]]
    /\ UNCHANGED details
    /\ UNCHANGED <<engines, obs>>
    /\ UNCHANGED accVars /\ UNCHANGED runVars /\ UNCHANGED repVars

\* one call of le.init() on that engine by its retrier: the first, or
\* the next after a failure
InitAttempt(env) ==
    LET r == TriggerRetry(attempt.le, configLease, env, TRUE) IN
    /\ Attempts(attempt.le, TRUE)
    /\ attempt' = [le |-> r.le, made |-> TRUE,
                   was |-> attempt.le.HolderIdentity, env |-> env,
                   err |-> r.err,
                   cause |-> LeInit(attempt.le, configLease, env).cause]
    /\ UNCHANGED details
    /\ UNCHANGED <<engines, obs>>
    /\ UNCHANGED accVars /\ UNCHANGED runVars /\ UNCHANGED repVars

\* LeaderEngine.init on an engine of its own, attempt by attempt
NextInit ==
    \/ \E id \in ArgIds, ttl \in ArgTtls : InitConfigure(id, ttl)
    \/ \E env \in InitEnvs : InitAttempt(env)

SpecInit == InitAcc /\ [][NextInit]_vars

(* ------------------------------------------------------------------ *)
(* N replicas observing one lease record                               *)
(* ------------------------------------------------------------------ *)
\* replica r's run loop writes itself into the lease record (first
\* acquisition, or take-over once the former holder stopped renewing)
LeaseAcquire(r) ==
    /\ lease # replicas[r].HolderIdentity
    /\ lease' = replicas[r].HolderIdentity
    /\ replicas' = [replicas EXCEPT ![r].held = TRUE]
    /\ UNCHANGED <<engines, obs>>
    /\ UNCHANGED runVars /\ UNCHANGED accVars /\ UNCHANGED extVars

\* replica r's run loop reads the record and reports its holder:
\* OnNewLeader(identity) stores it in currentHolderIdentity
ReplicaOnNewLeader(r) ==
    /\ lease # ""
    /\ replicas[r].currentHolderIdentity # lease
    /\ replicas' = [replicas EXCEPT ![r].currentHolderIdentity = lease]
    /\ UNCHANGED lease
    /\ UNCHANGED <<engines, obs>>
    /\ UNCHANGED runVars /\ UNCHANGED accVars /\ UNCHANGED extVars

ReplicaIsLeader(r) ==
    IsLeader(replicas[r].currentHolderIdentity, replicas[r].HolderIdentity)

NextRep ==
    \/ \E r \in ReplicaIds : LeaseAcquire(r)
    \/ \E r \in ReplicaIds : ReplicaOnNewLeader(r)

SpecRep == InitRun /\ [][NextRep]_vars

(* ------------------------------------------------------------------ *)
(* GetLeaderDetails: the lease record read straight from the API server *)
(* ------------------------------------------------------------------ *)
\* rl.LeaderElectionRecordAnnotationKey
LeaderKey == "control-plane.alpha.kubernetes.io/leader"

\* annotation texts: empty, cut short, an empty object, two records
RecordTexts == {"{\"holderIdentity\":\"a\"}", "{\"holderIdentity\":\"b\"}"}

AnnotationTexts == {"", "{", "{}"} \cup RecordTexts

\* the Annotations map of the ConfigMap the API server returns
AnnotationMaps ==
    {<<>>, "other" :> "x"}
        \cup {LeaderKey :> t : t \in AnnotationTexts}
        \cup {(LeaderKey :> t) @@ ("other" :> "x") : t \in RecordTexts}

\* what one call meets: apiserver.GetAPIClient, ConfigMaps(ns).Get and the
\* ConfigMap's annotations (what follows a failing step is not reached)
DetailApis ==
    { api \in [client : {"ok", "err"}, get : {"ok", "err"},
               annotations : AnnotationMaps] :
        /\ api.client = "err" => api.get = "ok"
        /\ (api.client = "err" \/ api.get = "err") => api.annotations = <<>> }

\* the zero rl.LeaderElectionRecord
ZeroRecord == [HolderIdentity |-> ""]

\* annotation, found := cm.Annotations[key]: a missing key reads as ""
Lookup(annotations, key) ==
    IF key \in DOMAIN annotations THEN annotations[key] ELSE ""

AnnotationFoundAlways(annotations) == TRUE

AnnotationFound(annotations) == LeaderKey \in DOMAIN annotations

\* json.Unmarshal([]byte(annotation), &led): an object decodes, its absent
\* fields stay zero; empty or cut-off input is an error
Unmarshal(text) ==
    IF text = "{}" THEN [led |-> ZeroRecord, err |-> FALSE]
    ELSE IF text = "{\"holderIdentity\":\"a\"}"
    THEN [led |-> [HolderIdentity |-> "a"], err |-> FALSE]
    ELSE IF text = "{\"holderIdentity\":\"b\"}"
    THEN [led |-> [HolderIdentity |-> "b"], err |-> FALSE]
    ELSE [led |-> ZeroRecord, err |-> TRUE]

\* the function's result: the record, the error and the ConfigMap reads made
LeaderDetails(api) ==
    IF api.client = "err"
    THEN [led |-> ZeroRecord, err |-> "client", gets |-> 0]
    ELSE IF api.get = "err"
    THEN [led |-> ZeroRecord, err |-> "get", gets |-> 1]
    ELSE IF ~AnnotationFound(api.annotations)
    THEN [led |-> ZeroRecord, err |-> "ErrNotFound", gets |-> 1]
    ELSE LET r == Unmarshal(Lookup(api.annotations, LeaderKey)) IN
         IF r.err
         THEN [led |-> r.led, err |-> "decode", gets |-> 1]
         ELSE [led |-> r.led, err |-> "nil", gets |-> 1]

\* one call of GetLeaderDetails; it has no receiver and reads no package
\* variable
GetLeaderDetails(api) ==
    LET r == LeaderDetails(api) IN
    /\ details' = [called |-> TRUE, api |-> api, err |-> r.err,
                   led |-> r.led, gets |-> r.gets]
    /\ UNCHANGED attempt
    /\ UNCHANGED <<engines, obs>>
    /\ UNCHANGED accVars /\ UNCHANGED runVars /\ UNCHANGED repVars

\* an accessor call made while no other accessor call is running
GetCallAlone(g, id, ttl) ==
    /\ \A h \in Getters : ~InFlight(h)
    /\ GetCall(g, id, ttl)

NextDet ==
    \/ \E g \in Getters, id \in ArgIds, ttl \in ArgTtls : GetCallAlone(g, id, ttl)
    \/ NextAccRest
    \/ \E api \in DetailApis : GetLeaderDetails(api)

\* GetLeaderDetails called at any time between and during accessor calls
\* that follow one another
SpecDet == InitAcc /\ [][NextDet]_vars

(* ------------------------------------------------------------------ *)
(* Properties                                                          *)
(* ------------------------------------------------------------------ *)
Returned(c) == callers[c].pc = "done"

\* C1: for one engine the run loop is launched exactly once however many
\* EnsureLeaderElectionRuns calls are made, also after a timeout, and no
\* call is past the run-once guard (polling or returned) before the launch.
C1_LaunchedExactlyOnce ==
    \A e \in EngineIds :
        /\ launches[e] <= 1
        /\ \A c \in Callers :
              callers[c].le = e /\ callers[c].pc \in {"poll", "done"}
                  => launches[e] = 1

\* a call timed out and a later call is polling again: still one launch
C1_Witness ==
    \E c1, c2 \in Callers :
        /\ c1 # c2
        /\ Returned(c1) /\ callers[c1].res = "timeout"
        /\ callers[c2].pc = "poll"
        /\ launches[callers[c2].le] = 1

\* C2: whenever EnsureLeaderElectionRuns returns nil, the run loop has been
\* launched and the callback has written a non-empty holder identity
\* before; running is never true without such an observation.
C2_SuccessMeansObserved ==
    \A c \in Callers :
        LET e == callers[c].le IN
        /\ Returned(c) /\ callers[c].res = "ok"
              => launches[e] >= 1 /\ obs[e].everNonEmpty
        /\ engines[e].running => launches[e] >= 1 /\ obs[e].everNonEmpty

\* both callers have returned nil (one of them by the fast path)
C2_Witness ==
    \E c1, c2 \in Callers :
        /\ c1 # c2
        /\ Returned(c1) /\ callers[c1].res = "ok"
        /\ Returned(c2) /\ callers[c2].res = "ok"

\* C3: a slow-path call during whose window the callback completed a write
\* of a non-empty identity returns nil with running set.
C3_FiredInWindowSucceeds ==
    \A c \in Callers :
        Returned(c) /\ callers[c].fired
            => callers[c].res = "ok" /\ engines[callers[c].le].running

\* C4: the deadline case returns the timeout error and leaves running
\* false; after a timeout a call that finds running false goes to the poll
\* loop again without a second launch, and a poll tick that reads a
\* non-empty holder returns nil and sets running.
C4_TimeoutLeavesRetryable ==
    [][\A c \in Callers :
         LET e == callers[c].le IN
         /\ (callers[c].pc = "poll" /\ callers'[c].pc = "done"
                 /\ callers'[c].res = "timeout")
               => ~engines[e].running /\ ~engines'[e].running
         /\ (obs[e].timedOut /\ ~engines[e].running
                 /\ callers[c].pc = "locked" /\ callers'[c].pc # "locked")
               => /\ callers'[c].pc = "poll"
                  /\ launches[e] = 1 /\ launches'[e] = 1
         /\ (obs[e].timedOut /\ callers[c].pc = "poll" /\ callers[c].tick
                 /\ ~callers'[c].tick /\ callers'[c].res # "timeout"
                 /\ engines[e].currentHolderIdentity # "")
               => /\ callers'[c].pc = "done" /\ callers'[c].res = "ok"
                  /\ engines'[e].running
      ]_vars

\* a call succeeded on an engine on which an earlier call had timed out
C4_Witness ==
    \E c \in Callers :
        LET e == callers[c].le IN
        /\ Returned(c) /\ callers[c].res = "ok"
        /\ obs[e].timedOut /\ engines[e].running /\ launches[e] = 1

\* C5 as stated: at most one replica has IsLeader() true at any time.
C5_AtMostOneLeader ==
    \A a, b \in ReplicaIds : ReplicaIsLeader(a) /\ ReplicaIsLeader(b) => a = b

\* C5 amended: a replica reports IsLeader() only if the lease record named
\* it holder at its latest callback, and among the replicas whose latest
\* callback reflects the current record at most one has IsLeader() true,
\* the current holder.
C5_AtMostOneCurrentLeader ==
    \A a \in ReplicaIds :
        ReplicaIsLeader(a) =>
            /\ replicas[a].held
            /\ replicas[a].currentHolderIdentity = lease =>
                  /\ lease = replicas[a].HolderIdentity
                  /\ \A b \in ReplicaIds :
                        /\ ReplicaIsLeader(b)
                        /\ replicas[b].currentHolderIdentity = lease
                        => a = b

\* the lease moved on; its former holder still reports leader, the new
\* holder reports leader and a third replica has observed the new holder
C5_Witness ==
    \E a, b, c \in ReplicaIds :
        /\ a # b /\ c # a /\ c # b
        /\ lease = replicas[b].HolderIdentity
        /\ ReplicaIsLeader(a) /\ ReplicaIsLeader(b)
        /\ replicas[c].currentHolderIdentity = lease

\* C6: between resets every accessor call that returns an engine returns
\* the same instance: two callers never hold different instances.
C6_OneEngineBetweenResets ==
    /\ Cardinality(returned) <= 1
    /\ \A g, h \in Getters :
          /\ getters[g].pc = "done" /\ getters[g].eng # Nil
          /\ getters[h].pc = "done" /\ getters[h].eng # Nil
          => getters[g].eng = getters[h].eng

\* C7: once the singleton is initialised, accessor calls run init no more
\* (exactly once in all when the first attempt succeeded), return no error
\* and return that same instance, until the singleton is reset.
C7_IdempotentInitialization ==
    [][LET e == globalLeaderEngine IN
       (e # Nil /\ engines[e].status = "OK" /\ globalLeaderEngine' # Nil) =>
           /\ globalLeaderEngine' = e
           /\ obs'[e].inits = obs[e].inits
           /\ obs[e].firstOK => obs[e].inits = 1
           /\ \A g \in Getters :
                 getters'[g] # getters[g] =>
                     /\ ~getters'[g].err
                     /\ getters'[g].pc = "done" => getters'[g].eng = e
      ]_vars

\* the first attempt succeeded and both callers hold the one engine
C7_Witness ==
    \E e \in EngineIds :
        /\ obs[e].firstOK /\ obs[e].inits = 1
        /\ \A g \in Getters : getters[g].pc = "done" /\ getters[g].eng = e

\* C8: the accessor returns a non-nil engine only when that engine is
\* initialised (leaderElector constructed), and nil exactly with an error.
C8_ReturnedEngineInitialised ==
    \A g \in Getters :
        getters[g].pc = "done" =>
            /\ getters[g].err <=> getters[g].eng = Nil
            /\ getters[g].eng # Nil =>
                  /\ engines[getters[g].eng].leaderElector
                  /\ engines[getters[g].eng].status = "OK"

\* C9: a configured engine's HolderIdentity and LeaseDuration come from the
\* arguments of the call that created it, the host name and the
\* configuration alone, whichever call's trigger initialised it.
C9_FirstCallerWins ==
    \A e \in EngineIds :
        LET first == obs[e].firstId
            ttl   == obs[e].firstTtl IN
        engines[e].status # "NeedSetup" =>
            /\ engines[e].HolderIdentity \in
                  {first} \cup (IF first = "" THEN {HostName} ELSE {})
            /\ engines[e].LeaseDuration \in {ttl, ResolveLease(ttl, configLease)}
            /\ engines[e].status = "OK" =>
                  /\ engines[e].HolderIdentity =
                        (IF first = "" THEN HostName ELSE first)
                  /\ engines[e].LeaseDuration = ResolveLease(ttl, configLease)

\* the creating call's initialization failed and a later call with another
\* identity and another TTL initialised the engine
C9_Witness ==
    \E e \in EngineIds :
        /\ engines[e].status = "OK"
        /\ ~obs[e].firstOK /\ obs[e].okByOther
        /\ \E g \in Getters : getters[g].pc = "done" /\ getters[g].eng = e

\* C10: every CurrentLeaderName() returns the value of the most recent
\* completed callback write, and IsLeader() is true exactly when that
\* value is the engine's HolderIdentity.
C10_ReadsLatestWrite ==
    \A q \in Queriers :
        queriers[q].pc = "done" =>
            /\ queriers[q].name = queriers[q].at
            /\ queriers[q].leader =
                  (queriers[q].at = engines[queriers[q].le].HolderIdentity)

\* IsLeader() answered true after the callback wrote the engine's identity,
\* and by now the callback has written another holder
C10_Witness ==
    \E q \in Queriers :
        /\ queriers[q].pc = "done" /\ queriers[q].op = "IsLeader"
        /\ queriers[q].leader
        /\ obs[queriers[q].le].lastWrite = "b"

\* C11: at successful initialization an empty supplied identity resolves to
\* the host name and a non-empty one is kept; a zero supplied TTL without a
\* configured duration gives the 60 s default; a non-zero configured
\* duration wins over the supplied TTL; the lease duration is never zero.
C11_DefaultFallbacks ==
    \A e \in EngineIds :
        engines[e].status = "OK" =>
            /\ obs[e].firstId = "" => engines[e].HolderIdentity = "host"
            /\ obs[e].firstId # "" => engines[e].HolderIdentity = obs[e].firstId
            /\ (obs[e].firstTtl = 0 /\ configLease = 0)
                  => engines[e].LeaseDuration = 60
            /\ (obs[e].firstTtl # 0 /\ configLease = 0)
                  => engines[e].LeaseDuration = obs[e].firstTtl
            /\ configLease # 0 => engines[e].LeaseDuration = configLease
            /\ engines[e].LeaseDuration # 0

\* an engine created with an empty identity and a non-zero TTL under a
\* configured lease duration has been initialised and returned
C11_Witness ==
    \E e \in EngineIds :
        /\ engines[e].status = "OK"
        /\ obs[e].firstId = "" /\ engines[e].HolderIdentity = HostName
        /\ obs[e].firstTtl = ArgTtl /\ configLease = CfgLease
        /\ engines[e].LeaseDuration = CfgLease
        /\ e \in returned

\* C12: once an engine's initialization has succeeded, no step of an
\* accessor call, an EnsureLeaderElectionRuns call, a query or a callback
\* changes its HolderIdentity or its LeaseDuration.
C12_ConfigurationFixed ==
    [][\A e \in EngineIds :
         (engines[e].status = "OK" /\ engines'[e].status = "OK") =>
             /\ engines'[e].HolderIdentity = engines[e].HolderIdentity
             /\ engines'[e].LeaseDuration = engines[e].LeaseDuration
      ]_vars

\* C13: GetLeaderDetails neither needs nor touches the singleton; it makes
\* one read of the record at most and returns the client error, the get
\* error, ErrNotFound exactly when the record was fetched without the
\* leader annotation, the decode error exactly when the annotation did not
\* decode, and nil exactly when the annotation was present and decoded.
C13_LeaderDetailsOutcomes ==
    [][details' # details =>
         LET api == details'.api
             ann == api.annotations
             fetched == api.client = "ok" /\ api.get = "ok"
             present == LeaderKey \in DOMAIN ann
             decoded == present /\ ann[LeaderKey] \in RecordTexts \cup {"{}"} IN
         /\ UNCHANGED <<globalLeaderEngine, nEngines, engines, getters,
                        returned>>
         /\ details'.gets <= 1
         /\ details'.err = "client" <=> api.client = "err"
         /\ details'.err = "get" <=> (api.client = "ok" /\ api.get = "err")
         /\ details'.err = "ErrNotFound" <=> (fetched /\ ~present)
         /\ details'.err = "decode" <=> (fetched /\ present /\ ~decoded)
         /\ details'.err = "nil" <=> (fetched /\ decoded)
         /\ details'.err # "nil" => details'.led = ZeroRecord
      ]_vars

\* a call decoded holder "a" while no engine had ever been created
C13_Witness ==
    /\ details.called /\ details.err = "nil"
    /\ details.led.HolderIdentity = "a"
    /\ globalLeaderEngine = Nil /\ nEngines = 0

\* C14: every EnsureLeaderElectionRuns call that has been made returns,
\* with nil or with the timeout error, however many callers there are and
\* whether or not the callback ever reports a holder.
C14_EveryCallReturns ==
    \A c \in Callers :
        (callers[c].pc \in {"lock", "locked", "poll"}) ~> Returned(c)

\* both callers have returned the timeout error, one after the other, and
\* the callback has never reported a holder
C14_Witness ==
    /\ \A c \in Callers : Returned(c) /\ callers[c].res = "timeout"
    /\ \A e \in EngineIds : ~obs[e].everNonEmpty

\* C15: a call has blocked its caller for at most the window (8 poll
\* intervals) since it was made, whatever other callers do.
C15_BlocksAtMostWindow ==
    \A c \in Callers :
        callers[c].pc \in {"lock", "locked", "poll"} =>
            (IF callers[c].waited THEN 1 ELSE 0) + callers[c].elapsed <= 8

\* C16: running, once true, stays true; while it is true no call is in the
\* poll loop, and a call that holds the mutex returns nil at its next step
\* without a launch, whatever the holder identity has become.
C16_RunningIsSticky ==
    [][\A e \in EngineIds :
         engines[e].running =>
             /\ engines'[e].running
             /\ launches'[e] = launches[e]
             /\ \A c \in Callers :
                   callers[c].le = e =>
                       /\ callers[c].pc # "poll" /\ callers'[c].pc # "poll"
                       /\ (callers[c].pc = "locked" /\ callers'[c] # callers[c])
                             => /\ callers'[c].pc = "done"
                                /\ callers'[c].res = "ok"
      ]_vars

\* the fast path returned nil while the holder was empty again, and
\* another call while the holder was another replica
C16_Witness ==
    \E c1, c2 \in Callers :
        /\ Returned(c1) /\ callers[c1].res = "ok" /\ callers[c1].logged = ""
        /\ Returned(c2) /\ callers[c2].res = "ok" /\ callers[c2].logged = "b"
        /\ engines[callers[c1].le].running
        /\ launches[callers[c1].le] = 1

\* a call, a query or a callback is under way
Pending ==
    \/ \E c \in Callers : callers[c].pc \in {"lock", "locked", "poll"}
    \/ \E q \in Queriers : queriers[q].pc = "rlocked"
    \/ \E e \in EngineIds : elector[e].pc # "idle"

\* a step of something under way
Progress ==
    \/ \E c \in Callers :
          \/ EnsureLock(c) \/ EnsureFastPath(c) \/ EnsureStart(c)
          \/ TimePasses(c) \/ EnsureTick(c) \/ EnsureTimeout(c)
    \/ \E e \in EngineIds : OnNewLeaderStore(e) \/ OnNewLeaderDone(e)
    \/ \E q \in Queriers : QueryRead(q)

\* C19: a query can take the holder lock whenever no callback holds it and
\* the callback whenever nobody holds it, also while a caller holds the
\* lifecycle mutex; who holds the holder lock never waits for anything;
\* and whenever something is under way, something under way can step.
C19_HolderLockApartFromLifecycle ==
    /\ \A q \in Queriers :
          (queriers[q].pc \in {"idle", "done"}
              /\ ~engines[queriers[q].le].rwWriter)
          => /\ ENABLED QueryRLock(q, "CurrentLeaderName")
             /\ ENABLED QueryRLock(q, "IsLeader")
    /\ \A q \in Queriers : queriers[q].pc = "rlocked" => ENABLED QueryRead(q)
    /\ \A e \in EngineIds :
          /\ (launches[e] > 0 /\ elector[e].pc = "idle"
                 /\ ~engines[e].rwWriter /\ engines[e].rwReaders = 0)
             => ENABLED OnNewLeaderLock(e, "a")
          /\ elector[e].pc = "locked" => ENABLED OnNewLeaderStore(e)
          /\ elector[e].pc = "storing" => ENABLED OnNewLeaderDone(e)
    /\ Pending => ENABLED Progress

\* during the first readiness poll, its caller holding the mutex, the
\* callback has written a holder and a query has returned it
C19_Witness ==
    \E c \in Callers, q \in Queriers :
        LET e == callers[c].le IN
        /\ callers[c].pc = "poll" /\ engines[e].m = c
        /\ ~engines[e].running /\ ~obs[e].timedOut
        /\ queriers[q].le = e /\ queriers[q].pc = "done"
        /\ queriers[q].name \in {"a", "b"}

\* C17: in an attempt of init a probe result "not found" is tolerated like
\* "found": the attempt goes on to construct the elector; a host name
\* error (when the identity is empty), a client error or another probe
\* error ends the attempt with that error and no elector constructed.
C17_InitErrorHandling ==
    attempt.made =>
        LET env == attempt.env
            hostErr == attempt.was = "" /\ env.host = "err"
            clientErr == ~hostErr /\ env.client = "err"
            probeErr == ~hostErr /\ ~clientErr /\ env.probe = "err"
            proceeds == ~hostErr /\ ~clientErr /\ ~probeErr IN
        /\ hostErr => attempt.err /\ attempt.cause = "os.Hostname"
        /\ clientErr => attempt.err /\ attempt.cause = "GetAPIClient"
        /\ probeErr => attempt.err /\ attempt.cause = "ConfigMaps.Get"
        /\ (hostErr \/ clientErr \/ probeErr) => ~attempt.le.leaderElector
        /\ proceeds =>
              /\ attempt.cause \in {"nil", "newElection"}
              /\ attempt.le.leaderElector <=> env.election = "ok"
              /\ attempt.err <=> env.election = "err"

\* an attempt met "not found" at the probe and constructed the elector,
\* after an earlier attempt on the same engine had resolved the host name
C17_Witness ==
    /\ attempt.made /\ attempt.env.probe = "notfound"
    /\ ~attempt.err /\ attempt.le.leaderElector
    /\ attempt.was = HostName

\* C18: init is attempted on one engine at most 10 times; once the 10th
\* attempt has failed, no accessor call attempts it again and every
\* accessor call returns an error and no engine, until the reset.
C18_RetryBudget ==
    [][\A e \in EngineIds :
         /\ obs[e].inits <= 10 /\ obs'[e].inits <= 10
         /\ engines[e].tryCount = 10 => engines[e].status = "PermaFail"
         /\ (e = globalLeaderEngine /\ engines[e].tryCount = 10
                 /\ globalLeaderEngine' # Nil)
               => /\ globalLeaderEngine' = e
                  /\ obs'[e].inits = 10
                  /\ engines'[e].status = "PermaFail"
                  /\ \A g \in Getters :
                        getters'[g] # getters[g] =>
                            /\ getters'[g].pc \in {"trigger", "done"}
                            /\ getters'[g].pc = "done" =>
                                  getters'[g].err /\ getters'[g].eng = Nil
      ]_vars

\* ten attempts have failed on the singleton and every caller's latest
\* call has returned an error
C18_Witness ==
    /\ globalLeaderEngine # Nil
    /\ engines[globalLeaderEngine].tryCount = 10
    /\ obs[globalLeaderEngine].inits = 10
    /\ \A g \in Getters : getters[g].pc = "done" /\ getters[g].err

\* C20: on an engine a caller got from the accessor, IsLeader() is false
\* as long as currentHolderIdentity is empty.
C20_NoLeaderBeforeObservation ==
    \A g \in Getters :
        (getters[g].pc = "done" /\ getters[g].eng # Nil) =>
            LET le == engines[getters[g].eng] IN
            le.currentHolderIdentity = ""
                => ~IsLeader(ReadHolder(le), le.HolderIdentity)

====
